---- MODULE Spec2Model ----
(***************************************************************************)
(* Model of client/src/pages/ContextPlayground.tsx: the ordered sequence   *)
(* of message blocks, the drag gesture state and the derived token usage.  *)
(* One action per event handler; every handler is followed, in the same    *)
(* step, by the re-render React performs before the next event. The input  *)
(* layer (DndContext) and the exit animations (AnimatePresence) are the    *)
(* environment: they decide which gestures and clicks can reach the page.  *)
(***************************************************************************)
EXTENDS Integers, Sequences, FiniteSets, TLC

\* ------------------------------------------------------------------ bounds

\* Number of events (drag-start, drag-end, drag-cancel, delete click, reset
\* click) the page is followed through.
MaxEvents == 8

\* Number of palette drops of the largest cost behind the conversation the
\* capacity specification starts from, and the number of events it is then
\* followed through.
FillBlocks == 170
MaxCapacityEvents == 3

\* Number of events the token specification, which samples Math.random() over
\* its whole range, is followed through.
MaxTokenEvents == 4

\* ------------------------------------------------------- program constants

maxContext == 4096

\* Math.floor(Math.random() * TokenSpan) + TokenBase
TokenSpan == 20
TokenBase == 5

\* JavaScript's null and undefined.
NULL == "null"
Undefined == [undefined |-> TRUE]

BlockType == {"user", "assistant", "system"}

INITIAL_BLOCKS ==
    << [id |-> "system-1", type |-> "system",
        content |-> "You are a helpful AI assistant.", tokens |-> 7] >>

\* The values Math.floor(Math.random() * TokenSpan) is sampled at: both ends
\* of its range 0 .. TokenSpan - 1.
RandomFloor == {0, TokenSpan - 1}

\* nanoid(): the n-th call returns a string no earlier call returned and that
\* is not 'system-1'.
nanoid(n) == "nano-" \o ToString(n)

\* useDraggable({ id: `source-${type}`, data: { type, isSource: true } })
SourceBlock(type) == [id |-> "source-" \o type, isSource |-> TRUE, type |-> type]

\* useSortable({ id: message.id }): data.current has no isSource.
SortableMessage(id) == [id |-> id, isSource |-> FALSE, type |-> NULL]

\* The library's "no drag in progress".
NoDrag == [id |-> NULL, isSource |-> FALSE, type |-> NULL]

\* ---------------------------------------------------------- array helpers

Max(a, b) == IF a >= b THEN a ELSE b
Min(a, b) == IF a <= b THEN a ELSE b

Defined(items) == { i \in 1..Len(items) : items[i] # Undefined }

Ids(items) == { items[i].id : i \in Defined(items) }

\* items.findIndex((i) => i.id === id): 0-based, -1 when there is none.
FindIndex(items, id) ==
    LET hits == { i \in Defined(items) : items[i].id = id }
    IN  IF hits = {} THEN -1
        ELSE (CHOOSE i \in hits : \A j \in hits : i <= j) - 1

\* messages.find(m => m.id === id)
Find(items, id) ==
    IF FindIndex(items, id) = -1 THEN Undefined ELSE items[FindIndex(items, id) + 1]

\* messages.filter(m => m.id !== id)
Filter(items, id) == SelectSeq(items, LAMBDA m : m.id # id)

\* Array.prototype.splice's clamping of its start argument.
SpliceStart(len, start) ==
    IF start < 0 THEN Max(len + start, 0) ELSE Min(start, len)

\* array.splice(start, 1)[0]: the element removed, undefined when the start
\* is at the end of the array.
SpliceRemoved(array, start) ==
    LET s == SpliceStart(Len(array), start)
    IN  IF s < Len(array) THEN array[s + 1] ELSE Undefined

\* array after array.splice(start, 1)
SpliceDelete(array, start) ==
    LET s == SpliceStart(Len(array), start)
    IN  IF s < Len(array)
        THEN SubSeq(array, 1, s) \o SubSeq(array, s + 2, Len(array))
        ELSE array

\* array after array.splice(start, 0, item)
SpliceInsert(array, start, item) ==
    LET s == SpliceStart(Len(array), start)
    IN  SubSeq(array, 1, s) \o << item >> \o SubSeq(array, s + 1, Len(array))

\* Mutants of arrayMove: one that copies the element without removing it, one
\* that swaps the two positions.
arrayCopy(array, from, to) ==
    LET at == IF to < 0 THEN Len(array) + to ELSE to
    IN  SpliceInsert(array, at, SpliceRemoved(array, from))

arraySwap(array, from, to) ==
    IF from < 0 \/ to < 0 THEN arrayCopy(array, from, to)
    ELSE [ i \in 1..Len(array) |->
             IF i = from + 1 THEN array[to + 1]
             ELSE IF i = to + 1 THEN array[from + 1]
             ELSE array[i] ]

\* arrayMove of @dnd-kit/sortable:
\*   newArray = array.slice();
\*   newArray.splice(to < 0 ? newArray.length + to : to, 0,
\*                   newArray.splice(from, 1)[0]);
\* The insertion index is evaluated before the removal.
arrayMove(array, from, to) ==
    LET at == IF to < 0 THEN Len(array) + to ELSE to
    IN  SpliceInsert(SpliceDelete(array, from), at, SpliceRemoved(array, from))

\* Mutant of Reduce: the fold stops one element early.
RECURSIVE ReduceSkipLast(_)
ReduceSkipLast(items) ==
    IF Len(items) <= 1 THEN 0
    ELSE items[1].tokens + ReduceSkipLast(Tail(items))

\* messages.reduce((acc, msg) => acc + msg.tokens, 0): 0 for the empty array,
\* else the sum of msg.tokens over the elements. The sum over lo..hi is taken
\* as the sum of its two halves, which is the value the fold in index order
\* has (the costs are integers) and keeps the depth of the evaluation
\* logarithmic in the length of the array.
RECURSIVE ReduceRange(_, _, _)
ReduceRange(items, lo, hi) ==
    IF lo > hi THEN 0
    ELSE IF lo = hi THEN items[lo].tokens
    ELSE ReduceRange(items, lo, (lo + hi) \div 2)
         + ReduceRange(items, (lo + hi) \div 2 + 1, hi)

Reduce(items) == ReduceRange(items, 1, Len(items))

\* (totalTokens / maxContext) * 100, kept exact as numerator and denominator.
UsagePercent(total) == [num |-> total * 100, den |-> maxContext]

\* The content string of a dropped block.
ContentOf(type) ==
    IF type = "user" THEN "Can you explain quantum computing simply?"
    ELSE IF type = "assistant" THEN "Quantum computing uses quantum bits or qubits..."
    ELSE "You are an expert in physics."

\* Mutant of NewBlock: Math.ceil in place of Math.floor.
NewBlockCeil(id, type, random) ==
    [id |-> id, type |-> type, content |-> ContentOf(type),
     tokens |-> random + 1 + TokenBase]

NewBlock(id, type, random) ==
    [id |-> id, type |-> type, content |-> ContentOf(type),
     tokens |-> random + TokenBase]

\* ------------------------------------------------------------------ state

VARIABLES
    messages,      \* useState<MessageBlock[]>
    activeId,      \* useState<string | null>
    draggedType,   \* useState<BlockType | null>
    totalTokens,   \* the total of the last render
    usagePercent,  \* the usage of the last render
    drag,          \* the input layer's gesture in flight (event.active), or NoDrag
    exiting,       \* removed blocks still mounted by AnimatePresence: id -> the
                   \* messages their onDelete closes over
    nextId,        \* number of nanoid() calls made, plus one
    crashed,       \* a render threw: the component tree is gone
    events,        \* number of events handled
    last           \* the last event the page handled and the state it was handled in

vars == << messages, activeId, draggedType, totalTokens, usagePercent,
           drag, exiting, nextId, crashed, events, last >>


\* ----------------------------------------------------------------- render

\* The reduce of the render reads msg.tokens of every element.
ReduceThrows(items) == \E i \in 1..Len(items) : items[i] = Undefined

\* <DragOverlay> renders its child while a gesture is in flight:
\* activeId && !draggedType selects
\* <SortableMessage message={messages.find(m => m.id === activeId)!} />, whose
\* useSortable({ id: message.id }) throws on an undefined message.
OverlayThrows(items, aid, dtype, d) ==
    /\ d # NoDrag
    /\ aid # NULL
    /\ dtype = NULL
    /\ Find(items, aid) = Undefined

RenderThrows(items, aid, dtype, d) ==
    ReduceThrows(items) \/ OverlayThrows(items, aid, dtype, d)

\* The render that follows a handler, on the state the handler left. A render
\* that throws commits nothing and unmounts the page.
Render(items, aid, dtype, d) ==
    /\ totalTokens' = IF RenderThrows(items, aid, dtype, d) THEN totalTokens
                      ELSE Reduce(items)
    /\ usagePercent' = IF RenderThrows(items, aid, dtype, d) THEN usagePercent
                       ELSE UsagePercent(Reduce(items))
    /\ crashed' = RenderThrows(items, aid, dtype, d)

\* <AnimatePresence>: a block that leaves messages stays mounted, with the props
\* of the last render it was part of, until its exit animation completes; a
\* block that is part of messages again is rendered with the current props.
Unmount(before, after) ==
    [ id \in (DOMAIN exiting \cup Ids(before)) \ Ids(after) |->
        IF id \in Ids(before) THEN before ELSE exiting[id] ]

\* What the renderer has mounted: sortable items that can be dragged, dropped
\* on, and whose delete button can be clicked.
Mounted == Ids(messages) \cup DOMAIN exiting

Event(op, active, over, id) ==
    [op |-> op, before |-> messages, beforeTotal |-> totalTokens,
     beforeUsage |-> usagePercent, active |-> active, over |-> over, id |-> id]

\* ------------------------------------------------------------------- Init

Init ==
    /\ messages = INITIAL_BLOCKS
    /\ activeId = NULL
    /\ draggedType = NULL
    /\ totalTokens = Reduce(INITIAL_BLOCKS)
    /\ usagePercent = UsagePercent(Reduce(INITIAL_BLOCKS))
    /\ drag = NoDrag
    /\ exiting = [id \in {} |-> << >>]
    /\ nextId = 1
    /\ crashed = FALSE
    /\ events = 0
    /\ last = [op |-> "init", before |-> INITIAL_BLOCKS,
               beforeTotal |-> Reduce(INITIAL_BLOCKS),
               beforeUsage |-> UsagePercent(Reduce(INITIAL_BLOCKS)),
               active |-> NoDrag, over |-> NULL, id |-> NULL]

\* --------------------------------------------------------------- handlers

\* Mutant of DragStartDraggedType: the test of isSource is inverted.
DragStartDraggedTypeInverted(active) ==
    IF active.isSource THEN draggedType ELSE active.type

\* handleDragStart: setDraggedType only for a palette source.
DragStartDraggedType(active) ==
    IF active.isSource THEN active.type ELSE draggedType

\* The input layer starts a gesture only when none is in flight.
handleDragStart(active) ==
    /\ ~crashed
    /\ events < MaxEvents
    /\ events' = events + 1
    /\ drag = NoDrag
    /\ activeId' = active.id
    /\ draggedType' = DragStartDraggedType(active)
    /\ drag' = active
    /\ Render(messages, active.id, DragStartDraggedType(active), active)
    /\ last' = Event("dragStart", active, NULL, NULL)
    /\ UNCHANGED << messages, exiting, nextId >>

\* Mutant of DragEndActiveId: the state is cleared after the early return.
DragEndActiveIdAfterReturn(over) == IF over = NULL THEN activeId ELSE NULL

\* handleDragEnd: setActiveId(null); setDraggedType(null), before any return.
DragEndActiveId(over) == NULL
DragEndDraggedType(over) == NULL

\* Mutants of DragEndMessages: a palette drop inserted at the target's index;
\* no early return on a missing target; a self-drop that removes the block
\* and appends it again.
DragEndMessagesInsertAtTarget(items, active, over, id, random) ==
    IF over = NULL THEN items
    ELSE IF active.isSource
         THEN SpliceInsert(items, FindIndex(items, over),
                           NewBlock(id, active.type, random))
    ELSE IF active.id # over
         THEN arrayMove(items, FindIndex(items, active.id), FindIndex(items, over))
    ELSE items

DragEndMessagesNoEarlyReturn(items, active, over, id, random) ==
    IF active.isSource
    THEN items \o << NewBlock(id, active.type, random) >>
    ELSE IF active.id # over
         THEN arrayMove(items, FindIndex(items, active.id), FindIndex(items, over))
    ELSE items

DragEndMessagesReinsertSelf(items, active, over, id, random) ==
    IF over = NULL THEN items
    ELSE IF active.isSource
         THEN items \o << NewBlock(id, active.type, random) >>
    ELSE IF active.id # over
         THEN arrayMove(items, FindIndex(items, active.id), FindIndex(items, over))
    ELSE Filter(items, active.id) \o << Find(items, active.id) >>

\* Mutant of DragEndMessages: a palette drop that would take the total past
\* maxContext pushes the oldest block out.
DragEndMessagesPushOut(items, active, over, id, random) ==
    IF over = NULL THEN items
    ELSE IF active.isSource
         THEN IF Reduce(items) + random + TokenBase > maxContext
              THEN Tail(items) \o << NewBlock(id, active.type, random) >>
              ELSE items \o << NewBlock(id, active.type, random) >>
    ELSE IF active.id # over
         THEN arrayMove(items, FindIndex(items, active.id), FindIndex(items, over))
    ELSE items

\* handleDragEnd: the value setMessages leaves, items being the state it is
\* applied to (both updates are functional).
DragEndMessages(items, active, over, id, random) ==
    IF over = NULL THEN items
    ELSE IF active.isSource
         THEN items \o << NewBlock(id, active.type, random) >>
    ELSE IF active.id # over
         THEN arrayMove(items, FindIndex(items, active.id), FindIndex(items, over))
    ELSE items

handleDragEnd(over, random) ==
    /\ ~crashed
    /\ events < MaxEvents
    /\ events' = events + 1
    /\ drag # NoDrag
    /\ activeId' = DragEndActiveId(over)
    /\ draggedType' = DragEndDraggedType(over)
    /\ messages' = DragEndMessages(messages, drag, over, nanoid(nextId), random)
    /\ nextId' = IF drag.isSource /\ over # NULL THEN nextId + 1 ELSE nextId
    /\ drag' = NoDrag
    /\ exiting' = Unmount(messages, messages')
    /\ Render(messages', activeId', draggedType', NoDrag)
    /\ last' = Event("dragEnd", drag, over, NULL)

\* The gesture is cancelled by the input layer (Escape, a resize, the tab
\* hidden): DndContext is given no onDragCancel, so no state is set and the
\* page is not rendered again.
DragCancel ==
    /\ ~crashed
    /\ events < MaxEvents
    /\ events' = events + 1
    /\ drag # NoDrag
    /\ drag' = NoDrag
    /\ UNCHANGED << messages, activeId, draggedType, totalTokens, usagePercent,
                    exiting, nextId, crashed, last >>

\* handleDelete: setMessages(messages.filter(m => m.id !== id)), messages
\* being the array of the render that created the handler.
DeleteMessages(closure, id) == Filter(closure, id)

\* The messages the onDelete of the mounted item `id` closes over.
Closure(id) == IF id \in Ids(messages) THEN messages ELSE exiting[id]

handleDelete(id) ==
    /\ ~crashed
    /\ events < MaxEvents
    /\ events' = events + 1
    /\ messages' = DeleteMessages(Closure(id), id)
    /\ exiting' = Unmount(messages, messages')
    /\ Render(messages', activeId, draggedType, drag)
    /\ last' = Event("delete", NoDrag, NULL, id)
    /\ UNCHANGED << activeId, draggedType, drag, nextId >>

\* Mutant of ResetMessages: the reset empties the conversation.
ResetMessagesEmpty == << >>

\* Reset Conversation: onClick={() => setMessages(INITIAL_BLOCKS)}
ResetMessages == INITIAL_BLOCKS

Reset ==
    /\ ~crashed
    /\ events < MaxEvents
    /\ events' = events + 1
    /\ messages' = ResetMessages
    /\ exiting' = Unmount(messages, messages')
    /\ Render(messages', activeId, draggedType, drag)
    /\ last' = Event("reset", NoDrag, NULL, NULL)
    /\ UNCHANGED << activeId, draggedType, drag, nextId >>

\* The exit animation of a removed block completes: it is unmounted.
ExitComplete(id) ==
    /\ ~crashed
    /\ exiting' = [ x \in DOMAIN exiting \ {id} |-> exiting[x] ]
    /\ UNCHANGED << messages, activeId, draggedType, totalTokens, usagePercent,
                    drag, nextId, crashed, last, events >>

\* ------------------------------------------------------------------- Next

\* What can be picked up: the three palette sources and the mounted items.
Draggables ==
    { SourceBlock(t) : t \in BlockType } \cup { SortableMessage(id) : id \in Mounted }

\* What closestCenter can return: a mounted sortable item, or nothing.
Droppables == Mounted

Next ==
    \/ \E active \in Draggables : handleDragStart(active)
    \/ \E over \in {NULL} \cup Droppables, random \in RandomFloor :
          handleDragEnd(over, random)
    \/ DragCancel
    \/ \E id \in Mounted : handleDelete(id)
    \/ Reset
    \/ \E id \in DOMAIN exiting : ExitComplete(id)

Spec == Init /\ [][Next]_vars

\* ---------------------------------------------- the page close to capacity

\* The conversation after FillBlocks palette drops of 'user' blocks, each of
\* the largest cost Math.random() allows: 7 + 170 * 24 = 4087 tokens.
FilledBlocks ==
    INITIAL_BLOCKS
        \o [ i \in 1..FillBlocks |-> NewBlock(nanoid(i), "user", TokenSpan - 1) ]

InitCapacity ==
    /\ messages = FilledBlocks
    /\ activeId = NULL
    /\ draggedType = NULL
    /\ totalTokens = Reduce(FilledBlocks)
    /\ usagePercent = UsagePercent(Reduce(FilledBlocks))
    /\ drag = NoDrag
    /\ exiting = [id \in {} |-> << >>]
    /\ nextId = FillBlocks + 1
    /\ crashed = FALSE
    /\ events = 0
    /\ last = [op |-> "init", before |-> FilledBlocks,
               beforeTotal |-> Reduce(FilledBlocks),
               beforeUsage |-> UsagePercent(Reduce(FilledBlocks)),
               active |-> NoDrag, over |-> NULL, id |-> NULL]

\* The mounted items the pointer is followed to: the first and the last block
\* of the conversation, and the exiting blocks that were the first or the last
\* of the conversation they left.
EdgeOf(items) ==
    IF items = << >> THEN {} ELSE Ids(<< items[1], items[Len(items)] >>)

EdgeItems ==
    EdgeOf(messages) \cup { id \in DOMAIN exiting : id \in EdgeOf(exiting[id]) }

NextCapacity ==
    \/ \E active \in { SourceBlock(t) : t \in BlockType }
                        \cup { SortableMessage(id) : id \in EdgeItems } :
          events < MaxCapacityEvents /\ handleDragStart(active)
    \/ \E over \in {NULL} \cup EdgeItems, random \in RandomFloor :
          events < MaxCapacityEvents /\ handleDragEnd(over, random)
    \/ events < MaxCapacityEvents /\ DragCancel
    \/ \E id \in EdgeItems :
          events < MaxCapacityEvents /\ handleDelete(id)
    \/ events < MaxCapacityEvents /\ Reset
    \/ \E id \in EdgeItems \cap DOMAIN exiting :
          events < MaxCapacityEvents /\ ExitComplete(id)

SpecCapacity == InitCapacity /\ [][NextCapacity]_vars


\* ------------------------------------------- every value of Math.random()

\* Math.floor(Math.random() * TokenSpan), Math.random() being in [0, 1): every
\* integer of 0 .. TokenSpan - 1.
RandomFloorAll == 0..(TokenSpan - 1)

NextTokens ==
    \/ \E active \in Draggables :
          events < MaxTokenEvents /\ handleDragStart(active)
    \/ \E over \in {NULL} \cup Droppables, random \in RandomFloorAll :
          events < MaxTokenEvents /\ handleDragEnd(over, random)
    \/ events < MaxTokenEvents /\ DragCancel
    \/ \E id \in Mounted : events < MaxTokenEvents /\ handleDelete(id)
    \/ events < MaxTokenEvents /\ Reset
    \/ \E id \in DOMAIN exiting :
          events < MaxTokenEvents /\ ExitComplete(id)

SpecTokens == Init /\ [][NextTokens]_vars


\* ----------------------------------------------------------------- claims

\* Helpers of the claims, written without the operators of the model.
RECURSIVE SumCost(_)
SumCost(items) ==
    IF items = << >> THEN 0
    ELSE (IF Head(items) = Undefined THEN 0 ELSE Head(items).tokens)
         + SumCost(Tail(items))

IdSet(items) ==
    { items[i].id : i \in { k \in 1..Len(items) : items[k] # Undefined } }

RECURSIVE Without(_, _)
Without(items, id) ==
    IF items = << >> THEN << >>
    ELSE IF Head(items).id = id THEN Without(Tail(items), id)
    ELSE << Head(items) >> \o Without(Tail(items), id)

\* 1-based position of the block with this id, which is in items.
Position(items, id) == CHOOSE i \in 1..Len(items) : items[i].id = id

\* The last event was a drag-end over a target, of a palette gesture / of an
\* existing-item gesture.
PaletteDrop ==
    last.op = "dragEnd" /\ last.active.isSource /\ last.over # NULL
ItemDrop ==
    last.op = "dragEnd" /\ ~last.active.isSource /\ last.over # NULL

\* C1: no two blocks of the sequence share an id, whatever drag-starts,
\* drag-ends, deletes and resets came before (nanoid() returning fresh ids).
C1_UniqueIds ==
    \A i, j \in 1..Len(messages) :
        (i # j /\ messages[i] # Undefined /\ messages[j] # Undefined)
            => messages[i].id # messages[j].id

\* C1 witness: a sequence of three blocks or more after a reorder.
C1_Witness ==
    /\ ItemDrop
    /\ Len(messages) >= 3
    /\ messages # last.before

\* C2: the total of the committed render is the sum of the token costs of the
\* blocks of the current sequence, and the usage is that sum over 4096.
C2_AggregateConsistent ==
    ~crashed =>
        /\ totalTokens = SumCost(messages)
        /\ usagePercent.den # 0
        /\ usagePercent.num * 4096 = SumCost(messages) * 100 * usagePercent.den

\* C2 witness: a mutation changed the total, of a sequence of two blocks or more.
C2_Witness ==
    /\ ~crashed
    /\ Len(messages) >= 2
    /\ totalTokens # last.beforeTotal
    /\ last.op = "delete"

\* C3: a reorder drag-end whose active id or over id is not the id of a block
\* of the sequence leaves the sequence as it was.
C3_MissingIdIsNoOp ==
    ( /\ ItemDrop
      /\ \/ last.active.id \notin IdSet(last.before)
         \/ last.over \notin IdSet(last.before) )
        => messages = last.before

\* C4: a reorder with source and target both present and different puts the
\* source block where the target was, the other blocks keeping their order.
C4_StableMove ==
    ( /\ ItemDrop
      /\ last.active.id # last.over
      /\ last.active.id \in IdSet(last.before)
      /\ last.over \in IdSet(last.before) )
        => /\ Len(messages) = Len(last.before)
           /\ messages[Position(last.before, last.over)]
                = last.before[Position(last.before, last.active.id)]
           /\ Without(messages, last.active.id)
                = Without(last.before, last.active.id)

\* C4 witness: a block moved over two positions or more.
C4_Witness ==
    /\ ItemDrop
    /\ last.active.id \in IdSet(last.before)
    /\ last.over \in IdSet(last.before)
    /\ \/ Position(last.before, last.over)
            >= Position(last.before, last.active.id) + 2
       \/ Position(last.before, last.active.id)
            >= Position(last.before, last.over) + 2

\* C5: a palette drop over any target appends exactly one new block at the
\* end and leaves the blocks that were there as they were, in their order.
C5_AppendOnly ==
    PaletteDrop =>
        /\ Len(messages) = Len(last.before) + 1
        /\ SubSeq(messages, 1, Len(last.before)) = last.before
        /\ messages[Len(messages)].id \notin IdSet(last.before)
        /\ messages[Len(messages)].type = last.active.type

\* C5 witness: a palette drop whose target is the first of several blocks.
C5_Witness ==
    /\ PaletteDrop
    /\ Len(last.before) >= 2
    /\ last.over = last.before[1].id

\* C6: a drag-start, and a drag-end with no drop target, each leave the
\* sequence, the total and the usage as they were.
C6_CancellationPure ==
    (last.op = "dragStart" \/ (last.op = "dragEnd" /\ last.over = NULL))
        => /\ messages = last.before
           /\ totalTokens = last.beforeTotal
           /\ usagePercent = last.beforeUsage

\* C6 witness: an existing-item gesture on a sequence of several blocks ended
\* with no drop target.
C6_Witness ==
    /\ last.op = "dragEnd"
    /\ last.over = NULL
    /\ ~last.active.isSource
    /\ last.active.id \in IdSet(messages)
    /\ Len(messages) >= 2

\* C7: an existing-item drag-end on the dragged block itself leaves the
\* sequence as it was.
C7_SelfDropIsNoOp ==
    (ItemDrop /\ last.over = last.active.id) => messages = last.before

\* C7 witness: a block that is not the last one is dropped on itself.
C7_Witness ==
    /\ ItemDrop
    /\ last.over = last.active.id
    /\ last.over \in IdSet(last.before)
    /\ Position(last.before, last.over) < Len(last.before)

\* C8: after a drag-end, whatever its branch, activeId and draggedType are
\* null and no gesture is in flight.
C8_DragEndClearsGesture ==
    last.op = "dragEnd" =>
        /\ activeId = NULL
        /\ draggedType = NULL
        /\ drag = NoDrag

\* C8 witness: a palette gesture ended with no drop target.
C8_Witness ==
    /\ last.op = "dragEnd"
    /\ last.over = NULL
    /\ last.active.isSource

\* C9: a reset leaves the one fixed system block, whatever came before.
C9_ResetDeterministic ==
    last.op = "reset" =>
        messages = << [id |-> "system-1", type |-> "system",
                       content |-> "You are a helpful AI assistant.",
                       tokens |-> 7] >>

\* C9 witness: a reset with a gesture in flight, of a reordered sequence in
\* which the system block was not first.
C9_Witness ==
    /\ last.op = "reset"
    /\ drag # NoDrag
    /\ Len(last.before) >= 2
    /\ last.before[1].id # "system-1"

\* C10: a delete of a block of the sequence leaves the sequence without it,
\* the others in order, and lowers the total by its cost; a delete of an id
\* that is not in the sequence leaves the sequence as it was.
C10_Remove ==
    last.op = "delete" =>
        IF last.id \in IdSet(last.before)
        THEN /\ messages = Without(last.before, last.id)
             /\ ~crashed =>
                  totalTokens = last.beforeTotal
                    - last.before[Position(last.before, last.id)].tokens
        ELSE messages = last.before

C12_DroppedKindAndContent ==
    /\ (drag # NoDrag /\ drag.isSource) => draggedType = drag.type
    /\ PaletteDrop =>
          /\ messages[Len(messages)].type = last.active.type
          /\ last.active.id = "source-" \o last.active.type
          /\ messages[Len(messages)].content =
                CASE last.active.type = "user" ->
                       "Can you explain quantum computing simply?"
                  [] last.active.type = "assistant" ->
                       "Quantum computing uses quantum bits or qubits..."
                  [] last.active.type = "system" ->
                       "You are an expert in physics."

\* C12 witness: an assistant template was dropped after a user template.
C12_Witness ==
    /\ PaletteDrop
    /\ last.active.type = "assistant"
    /\ messages[Len(messages)].type = "assistant"
    /\ \E i \in 1..(Len(messages) - 1) :
          /\ messages[i] # Undefined
          /\ messages[i].content = "Can you explain quantum computing simply?"

\* C13: draggedType is set exactly while a gesture that started on a palette
\* template is in flight, and with no gesture in flight activeId and
\* draggedType are both null.
C13_GestureStateConsistent ==
    /\ draggedType # NULL <=> (drag # NoDrag /\ drag.isSource)
    /\ drag = NoDrag => (activeId = NULL /\ draggedType = NULL)

\* C14: an existing-item drag-end leaves a permutation of the sequence it was
\* applied to (the same blocks, the same length) and the same total.
C14_ReorderKeepsAggregate ==
    (last.op = "dragEnd" /\ ~last.active.isSource) =>
        /\ Len(messages) = Len(last.before)
        /\ \A i \in 1..Len(last.before) :
              \E j \in 1..Len(messages) : messages[j] = last.before[i]
        /\ \A j \in 1..Len(messages) :
              \E i \in 1..Len(last.before) : messages[j] = last.before[i]
        /\ ~crashed => totalTokens = last.beforeTotal

\* C15: a block made by a palette drop costs an integer of 5..24; every block
\* of the sequence costs a natural number; the total is at least 0 and at
\* most 7 + 24 * (number of blocks of the sequence other than system-1).
C15_TokenRange ==
    /\ PaletteDrop => messages[Len(messages)].tokens \in 5..24
    /\ \A i \in 1..Len(messages) :
          messages[i] # Undefined =>
              /\ messages[i].tokens \in Nat
              /\ messages[i].id # "system-1" => messages[i].tokens \in 5..24
    /\ ~crashed =>
          /\ totalTokens >= 0
          /\ totalTokens <=
                7 + 24 * Cardinality({ i \in 1..Len(messages) :
                                        /\ messages[i] # Undefined
                                        /\ messages[i].id # "system-1" })

\* C15 witness: a block of cost 24 was dropped after a block of cost 5, the
\* two ends of the range, next to the system block.
C15_Witness ==
    /\ PaletteDrop
    /\ Len(messages) = 3
    /\ messages[3].tokens = 24
    /\ messages[2].tokens = 5
    /\ totalTokens = 36

\* C16: a drag-start is handled only in Idle, where activeId and draggedType
\* are null, so no drag-start overwrites what an earlier drag-start stored
\* before a drag-end has cleared it.
C16_DragStartOnlyInIdle ==
    [][ (drag = NoDrag /\ drag' # NoDrag)
            => (activeId = NULL /\ draggedType = NULL) ]_vars

\* C17: with an empty sequence and a palette gesture in flight, some drag-end
\* the page can be given, on one of the drop targets there are or on none,
\* makes the sequence non-empty.
C17_EmptyAcceptsPaletteDrop ==
    (/\ messages = << >>
     /\ drag # NoDrag
     /\ drag.isSource
     /\ ~crashed
     /\ events < MaxEvents)
        => ENABLED (\E over \in {NULL} \cup Droppables, random \in RandomFloor :
                       handleDragEnd(over, random) /\ messages' # << >>)

\* C18: while an existing-item gesture is in flight (activeId set, draggedType
\* null) activeId is the id of a block of the sequence, whatever deletes and
\* resets come in between, and the render of the overlay does not throw.
C18_ActiveItemPresent ==
    (drag # NoDrag /\ activeId # NULL /\ draggedType = NULL)
        => (activeId \in IdSet(messages) /\ ~crashed)

\* C19: a delete is applied to the sequence every earlier insert and move
\* left: the blocks other than the deleted one are all still there, in their
\* order.
C19_NoLostUpdate ==
    last.op = "delete" =>
        /\ IdSet(last.before) \ {last.id} \subseteq IdSet(messages)
        /\ messages = SelectSeq(last.before, LAMBDA m : m.id # last.id)

====
